---- MODULE Spec2Model ----
(***************************************************************************)
(* A model of wastebin.c: the command that withholds CPUs and memory from  *)
(* a Linux system, its daemon (convergence loop), the named pipe           *)
(* /tmp/wastebin used as rendezvous, and the sysfs range-list parser.      *)
(***************************************************************************)
EXTENDS Integers, Sequences, FiniteSets, TLC

(***************************************************************************)
(* Bounds of the model.                                                    *)
(***************************************************************************)
\* Process slots: how many invocations of the command can be alive at once.
NProc == 2
\* Total number of invocations of the command in one behaviour.
MaxInvocations == 3
\* Size of the CPU index domain (4096 in the program, scaled down).
max_cpu_count == 3
\* sysconf(_SC_PHYS_PAGES) of the modelled machine.
PhysPages == 2
\* Longest range-list text given to the parser on its own.
MaxTextLen == 5

(***************************************************************************)
(* Program constants.                                                      *)
(***************************************************************************)
\* the page size the program hard-codes (0xfff + 1, << 12)
PageSize == 4096
MsgWords == 2
\* %u converts into an unsigned; every converted value from 2^31 - 1 up,
\* a negated one included, is held as this one value: the parser only
\* compares a converted value with max_cpu_count
UIntHuge == 2147483647
\* errno value of a permission failure
EPERM == 1

CpuIndex == 0 .. (max_cpu_count - 1)

(***************************************************************************)
(* Text: a C string is a sequence of one-character strings; offsets are    *)
(* 0-based as in the C code, and reading at the length gives the NUL.      *)
(***************************************************************************)
Digits == <<"0", "1", "2", "3", "4", "5", "6", "7", "8", "9">>
DigitChars == {Digits[i] : i \in 1 .. 10}
SpaceChars == {" ", "\n"}

At(buf, i) == IF i >= 0 /\ i < Len(buf) THEN buf[i + 1] ELSE "NUL"

DigitVal(c) == (CHOOSE i \in 1 .. 10 : Digits[i] = c) - 1

\* first offset at or after i that does not hold white space
RECURSIVE SkipSpace(_, _)
SkipSpace(buf, i) ==
  IF At(buf, i) \in SpaceChars THEN SkipSpace(buf, i + 1) ELSE i

\* first offset at or after i that does not hold a digit
RECURSIVE SkipDigits(_, _)
SkipDigits(buf, i) ==
  IF At(buf, i) \in DigitChars THEN SkipDigits(buf, i + 1) ELSE i

\* value of the digits in [i, j)
RECURSIVE DigitsValue(_, _, _, _)
DigitsValue(buf, i, j, acc) ==
  IF i >= j THEN acc
  ELSE IF acc >= UIntHuge \div 10 THEN UIntHuge
  ELSE DigitsValue(buf, i + 1, j, acc * 10 + DigitVal(At(buf, i)))

\* sscanf's %u at offset i: skips white space, takes an optional sign and
\* the digits.  np is 1 on a conversion, 0 on a matching failure and -1
\* (EOF) when the input ends first; n is what %n would then store.
ScanUnsigned(buf, i) ==
  LET s == SkipSpace(buf, i)
      signed == At(buf, s) \in {"-", "+"}
      d == IF signed THEN s + 1 ELSE s
      e == SkipDigits(buf, d)
      v == DigitsValue(buf, d, e, 0)
  IN  IF At(buf, s) = "NUL" THEN [np |-> -1, val |-> 0, n |-> 0]
      ELSE IF e = d THEN [np |-> 0, val |-> 0, n |-> 0]
      ELSE [np |-> 1,
            val |-> IF At(buf, s) = "-" /\ v # 0 THEN UIntHuge ELSE v,
            n |-> e - i]

\* first offset at or after i that does not hold a comma
RECURSIVE SkipCommas(_, _)
SkipCommas(buf, i) ==
  IF At(buf, i) = "," THEN SkipCommas(buf, i + 1) ELSE i

\* sscanf(buf + nxt, "%u%n%1[,-]%n", &u, &nd, &c, &end)
ScanFirst(buf, nxt) ==
  LET a == ScanUnsigned(buf, nxt)
      c == At(buf, nxt + a.n)
  IN  IF a.np # 1 THEN [np |-> a.np, u |-> 0, nd |-> 0, c |-> "NUL", end |-> 0]
      ELSE IF c \in {",", "-"}
           THEN [np |-> 2, u |-> a.val, nd |-> a.n, c |-> c, end |-> a.n + 1]
           ELSE [np |-> 1, u |-> a.val, nd |-> a.n, c |-> "NUL", end |-> 0]

\* sscanf(buf + nxt, "%u%n%[,]%n", &ul, &nl, &c, &nle)
ScanSecond(buf, nxt) ==
  LET a == ScanUnsigned(buf, nxt)
      k == SkipCommas(buf, nxt + a.n)
  IN  IF a.np # 1 THEN [np |-> a.np, ul |-> 0, nl |-> 0, nle |-> 0]
      ELSE IF k > nxt + a.n
           THEN [np |-> 2, ul |-> a.val, nl |-> a.n, nle |-> k - nxt]
           ELSE [np |-> 1, ul |-> a.val, nl |-> a.n, nle |-> 0]

\* Both conversions %1[,-] and %[,] store the characters they match and a
\* terminating NUL at &c, and c is one char: the NUL, and every comma but
\* the first, land on what the build has put behind c.  The builds differ
\* in that: a slot that is dead at that point ("spare"), the low bytes of
\* u ("u") or the low bytes of ul ("ul").
Layouts == {"spare", "u", "ul"}

\* a little-endian unsigned whose low n bytes are overwritten with n - 1
\* commas (0x2c) and a NUL
Overrun(x, n) ==
  CASE n <= 0 -> x
    [] n = 1 -> (x \div 256) * 256
    [] n = 2 -> (x \div 65536) * 65536 + 44
    [] n = 3 -> (x \div 16777216) * 16777216 + 11308
    [] n = 4 -> 2894892
    [] OTHER -> 741092396

\* the marking of one single id (cpu_states[u] = 1 under its guard)
MarkOne(states, u) == IF u < max_cpu_count THEN states \cup {u} ELSE states

\* the marking of one range
MarkRangeDropsGuard(states, u, ul) ==
  states \cup {i \in CpuIndex : u <= i /\ i <= ul}

MarkRange(states, u, ul) ==
  IF u < max_cpu_count /\ ul < max_cpu_count
  THEN states \cup {i \in CpuIndex : u <= i /\ i <= ul}
  ELSE states

\* The parse loop of parse_sysfs_cpu_set over the text read from sysfs:
\* the result is the set of ids marked, how the loop ended ("anomaly": one
\* of the two early returns, "end": the loop condition) and the offset
\* reached.
RECURSIVE ParseLoop(_, _, _, _)
ParseLoop(buf, nxt, states, lay) ==
  LET f == ScanFirst(buf, nxt)
      \* u once the first sscanf has stored its character and the NUL
      u == IF f.np = 2 /\ lay = "u" THEN Overrun(f.u, 1) ELSE f.u
      Continue(n2, st2) ==
        IF n2 # Len(buf) /\ At(buf, n2) # "\n"
        THEN ParseLoop(buf, n2, st2, lay)
        ELSE [marks |-> st2, how |-> "end", at |-> n2]
  IN  CASE f.np \in {-1, 0} -> [marks |-> states, how |-> "anomaly", at |-> nxt]
        [] f.np = 1 -> Continue(nxt + f.nd, MarkOne(states, u))
        [] f.np = 2 /\ f.c = "," -> Continue(nxt + f.end, MarkOne(states, u))
        [] f.np = 2 /\ f.c = "-" ->
             LET n1 == nxt + f.end
                 g == ScanSecond(buf, n1)
                 \* u and ul once the second sscanf has stored its commas
                 commas == g.nle - g.nl
                 u2 == IF g.np = 2 /\ lay = "u" THEN Overrun(u, commas) ELSE u
                 ul == IF g.np = 2 /\ lay = "ul" THEN Overrun(g.ul, commas) ELSE g.ul
             IN  CASE g.np \in {-1, 0} ->
                        [marks |-> states, how |-> "anomaly", at |-> n1]
                   [] g.np = 1 -> Continue(n1 + g.nl, MarkRange(states, u, g.ul))
                   [] g.np = 2 -> Continue(n1 + g.nle, MarkRange(states, u2, ul))

\* lay is the stack layout of the build that runs
parse_sysfs_cpu_set(buf, cpu_states, lay) == ParseLoop(buf, 0, cpu_states, lay)

(***************************************************************************)
(* The text the kernel gives for a CPU set: runs "lo-hi" and single ids,   *)
(* separated by commas, ended by a newline.                                *)
(***************************************************************************)
RECURSIVE NumText(_)
NumText(n) ==
  IF n < 10 THEN <<Digits[n + 1]>>
  ELSE NumText(n \div 10) \o <<Digits[(n % 10) + 1]>>

SetMin(S) == CHOOSE x \in S : \A y \in S : x <= y
SetMax(S) == CHOOSE x \in S : \A y \in S : x >= y

\* last id of the run of consecutive ids of S that starts at a
RECURSIVE RunEnd(_, _)
RunEnd(S, a) == IF (a + 1) \in S THEN RunEnd(S, a + 1) ELSE a

RECURSIVE RangeListFrom(_)
RangeListFrom(S) ==
  IF S = {} THEN <<>>
  ELSE LET a == SetMin(S)
           b == RunEnd(S, a)
           rest == {x \in S : x > b}
           item == IF a = b THEN NumText(a) ELSE NumText(a) \o <<"-">> \o NumText(b)
       IN  IF rest = {} THEN item ELSE item \o <<",">> \o RangeListFrom(rest)

SysfsText(S) == RangeListFrom(S) \o <<"\n">>

(***************************************************************************)
(* Command-line arguments (main, str2ul, strm2ul, scale_ok).  A byte       *)
(* amount of 2^30 or more is held as 2^30: every such amount exceeds the   *)
(* reservation of the modelled machine.                                    *)
(***************************************************************************)
BytesHuge == 1073741824

\* strtoul(arg, &endp, 10) read as a long: the value and the offset of endp
Strtoul(arg) ==
  LET a == ScanUnsigned(arg, 0)
  IN  IF a.np # 1 THEN [value |-> 0, endp |-> 0]
      ELSE [value |-> IF a.val >= BytesHuge
                      THEN (IF At(arg, SkipSpace(arg, 0)) = "-" THEN -1 ELSE BytesHuge)
                      ELSE a.val,
            endp |-> a.n]

str2ul(arg) ==
  LET r == Strtoul(arg)
  IN  IF At(arg, r.endp) = "NUL" /\ At(arg, 0) # "NUL" /\ r.value >= 0
      THEN r.value ELSE -1

RECURSIVE Pow2(_)
Pow2(k) == IF k = 0 THEN 1 ELSE 2 * Pow2(k - 1)

\* value << k
ShiftLeft(value, k) ==
  IF value = 0 THEN 0
  ELSE IF k >= 30 THEN BytesHuge
  ELSE IF value >= BytesHuge \div Pow2(k) THEN BytesHuge
  ELSE value * Pow2(k)

\* (value + 0xfff) & ~0xfffUL with the low bits cleared before the add
scale_ok_truncates(mbz, value) ==
  IF mbz # "NUL" THEN -1 ELSE (value \div PageSize) * PageSize

\* (value + 0xfff) & ~0xfffUL, or -1 when a character follows the suffix
scale_ok(mbz, value) ==
  IF mbz # "NUL" THEN -1
  ELSE ((value + (PageSize - 1)) \div PageSize) * PageSize

\* the shift the suffix character selects, -1 for no case of the switch
SuffixShift(c) ==
  CASE c = "NUL" -> 0
    [] c \in {"k", "K"} -> 10
    [] c \in {"m", "M"} -> 20
    [] c \in {"g", "G"} -> 30
    [] c \in {"t", "T"} -> 40
    [] OTHER -> -1

\* strm2ul: typed is the amount before rounding (value << shift), bytes the
\* amount returned
strm2ul(arg) ==
  LET r == Strtoul(arg)
      e == At(arg, r.endp)
      k == SuffixShift(e)
      typed == ShiftLeft(r.value, k)
      mbz == IF e = "NUL" THEN e ELSE At(arg, r.endp + 1)
  IN  IF At(arg, 0) # "NUL" /\ r.value >= 0 /\ k >= 0
      THEN [bytes |-> scale_ok(mbz, typed), typed |-> typed]
      ELSE [bytes |-> -1, typed |-> 0]

\* the command lines the model tries, <<mem, ncpus>>: nothing, memory that
\* needs rounding with one CPU, one CPU and no memory, two pages with two
\* CPUs, every CPU index, more memory than the machine has, and two bad
\* arguments
CommandLines ==
  { << <<"0">>, <<"0">> >>,
    << <<"1">>, <<"1">> >>,
    << <<"0">>, <<"1">> >>,
    << <<"5", "k">>, <<"2">> >>,
    << <<"0">>, NumText(max_cpu_count) >>,
    << <<"1", "M">>, <<"0">> >>,
    << <<"4", "K", "x">>, <<"0">> >>,
    << <<"0">>, <<"x">> >> }

(***************************************************************************)
(* State.                                                                  *)
(***************************************************************************)
Procs == 1 .. NProc
\* the FIFOs (inodes) that can exist at once: the one the path names and
\* one more, unlinked, held open by each process
FifoIds == 1 .. (NProc + 1)

VARIABLES
  \* the machine
  sysOnline,      \* CPUs the kernel has online
  fifoPath,       \* the FIFO that /tmp/wastebin names, 0 when the path is absent
  fifoQ,          \* per FIFO, the words written and not yet read: each
                  \* word carries the slot of its writer and the member of
                  \* desired it was copied from
  ninv,           \* invocations of the command so far
  \* one process per slot
  pc,             \* where the process is in main
  made,           \* the FIFO its mkfifo created, 0 for none
  desired,        \* main's desired (membytes, cpus); typed is the amount
                  \* of the argument before rounding, carried for reference
  pipefd,         \* the FIFO the process holds open, 0 for none
  nb,             \* what the read that sent the process into poll returned
  \* the statics of wastebin.c, per process
  cpus_online, cpus_taken, wastebin_cpus_taken,
  wastebin_max_size, wastebin_memory_taken,
  locked,         \* pages of the reservation the kernel holds locked
  \* history
  toggles,        \* the writes <<cpu, state>> of the last adjust_cpus call
  firstTaken,     \* the first CPU the process ever took, -1 for none
  lastReleased,   \* the CPU it released last, -1 for none
  lastop,         \* the mlock/munlock call of the last adjust_memory: the
                  \* range [lo, hi) and (from) memory_taken before it
  applied,        \* the last target whose APPLY completed
  owed,           \* "owed" from the moment a message (0, 0) is written to
                  \* the FIFO the process reads while it withholds a CPU or
                  \* memory, "done" once it has then ended by removing the
                  \* path, "no" otherwise
  lastExit,       \* how the last process to end ended: its status ("exit0",
                  \* "exit1", "signal"), its last diagnostic, and the errno
                  \* of the mlock that stopped it
  \* the parser on its own
  ptext, presult

machineVars == <<sysOnline, fifoPath, fifoQ, ninv>>
procVars == <<pc, made, desired, pipefd>>
cpuVars == <<cpus_online, cpus_taken, wastebin_cpus_taken>>
memVars == <<wastebin_max_size, wastebin_memory_taken, locked>>
histVars == <<toggles, firstTaken, lastReleased, lastop, applied, owed, lastExit>>
parseVars == <<ptext, presult>>
waitVars == <<nb>>
vars == <<machineVars, procVars, cpuVars, memVars, histVars, parseVars, waitVars>>

NoTarget == [membytes |-> -1, cpus |-> -1, typed |-> -1]
NoOp == [op |-> "none", lo |-> 0, hi |-> 0, from |-> 0]
NoExit == [status |-> "none", diag |-> "none", errno |-> "none"]
NoResult == [marks |-> {}, how |-> "none", at |-> 0]
NoRead == [nb |-> 0, errno |-> "none"]

\* the CPU sets a machine can have online when the command first runs
BootOnline == {CpuIndex, CpuIndex \ {0}, {0, max_cpu_count - 1}}

\* the machine before the first invocation of the command
Boot ==
  /\ sysOnline \in BootOnline
  /\ fifoPath = 0
  /\ fifoQ = [f \in FifoIds |-> <<>>]
  /\ ninv = 0
  /\ pc = [p \in Procs |-> "idle"]
  /\ made = [p \in Procs |-> 0]
  /\ desired = [p \in Procs |-> NoTarget]
  /\ pipefd = [p \in Procs |-> 0]
  /\ nb = [p \in Procs |-> NoRead]
  /\ cpus_online = [p \in Procs |-> {}]
  /\ cpus_taken = [p \in Procs |-> {}]
  /\ wastebin_cpus_taken = [p \in Procs |-> 0]
  /\ wastebin_max_size = [p \in Procs |-> 0]
  /\ wastebin_memory_taken = [p \in Procs |-> 0]
  /\ locked = [p \in Procs |-> {}]
  /\ toggles = [p \in Procs |-> <<>>]
  /\ firstTaken = [p \in Procs |-> -1]
  /\ lastReleased = [p \in Procs |-> -1]
  /\ lastop = [p \in Procs |-> NoOp]
  /\ applied = [p \in Procs |-> NoTarget]
  /\ owed = [p \in Procs |-> "no"]
  /\ lastExit = NoExit

Init ==
  /\ Boot
  /\ ptext = <<>>
  /\ presult = NoResult

(***************************************************************************)
(* The kernel's side of the FIFO and of a process's end.                   *)
(***************************************************************************)
\* a pipe's buffer lives as long as some process holds the FIFO open
Drain(q, fds) ==
  [f \in FifoIds |-> IF \E r \in Procs : fds[r] = f THEN q[f] ELSE <<>>]

\* processes holding FIFO f open for reading (the daemons: O_RDWR)
Readers(f) == {r \in Procs : pipefd[r] = f /\ pc[r] # "client_write"}

\* the last line of a daemon that ends as designed (line 519)
Terminated == "background process terminated"

\* exit(3), a return from main or death by signal.  The kernel closes the
\* descriptor and drops the address space with its statics and its locks;
\* what the process wrote to the CPU files and to the file system stays.
\* The slot is free again.
\* q is the content of the FIFOs as the process leaves it, o what the
\* processes are owed.
ExitProcQ(p, st, dg, err, q, o) ==
  /\ pc' = [pc EXCEPT ![p] = "idle"]
  /\ lastExit' = [status |-> st, diag |-> dg, errno |-> err]
  /\ owed' = [o EXCEPT ![p] = IF @ = "owed" /\ dg = Terminated THEN "done" ELSE "no"]
  /\ pipefd' = [pipefd EXCEPT ![p] = 0]
  /\ fifoQ' = Drain(q, pipefd')
  /\ made' = [made EXCEPT ![p] = 0]
  /\ desired' = [desired EXCEPT ![p] = NoTarget]
  /\ cpus_online' = [cpus_online EXCEPT ![p] = {}]
  /\ cpus_taken' = [cpus_taken EXCEPT ![p] = {}]
  /\ wastebin_cpus_taken' = [wastebin_cpus_taken EXCEPT ![p] = 0]
  /\ wastebin_max_size' = [wastebin_max_size EXCEPT ![p] = 0]
  /\ wastebin_memory_taken' = [wastebin_memory_taken EXCEPT ![p] = 0]
  /\ locked' = [locked EXCEPT ![p] = {}]
  /\ toggles' = [toggles EXCEPT ![p] = <<>>]
  /\ firstTaken' = [firstTaken EXCEPT ![p] = -1]
  /\ lastReleased' = [lastReleased EXCEPT ![p] = -1]
  /\ lastop' = [lastop EXCEPT ![p] = NoOp]
  /\ applied' = [applied EXCEPT ![p] = NoTarget]

ExitProc(p, st, dg, err) == ExitProcQ(p, st, dg, err, fifoQ, owed)

\* the variables ExitProc sets, for the steps that do not end the process
exitVars == <<pc, lastExit, owed, pipefd, fifoQ, made, desired,
              cpus_online, cpus_taken, wastebin_cpus_taken, wastebin_max_size,
              wastebin_memory_taken, locked, toggles, firstTaken, lastReleased,
              lastop, applied>>

\* fail_exit(msg, cmdstr)
fail_exit(p, msg) == ExitProc(p, "exit1", msg, "none")

\* outcomes of a system call that the program does not control
Ext == {"ok", "fail"}

(***************************************************************************)
(* main, up to the rendezvous.                                             *)
(***************************************************************************)
\* a new invocation, in the lowest free slot: main parses its arguments
\* (lines 396-408)
Invoke(p, memarg, cpuarg) ==
  /\ pc[p] = "idle"
  /\ \A q \in Procs : q < p => pc[q] # "idle"
  /\ ninv < MaxInvocations
  /\ ninv' = ninv + 1
  /\ LET c == str2ul(cpuarg)
         m == strm2ul(memarg)
     IN  IF c < 0 \/ m.bytes < 0
         THEN ExitProc(p, "exit1", IF c < 0 THEN "Bad cpus argument"
                                  ELSE "Bad memory argument", "none")
         ELSE /\ desired' = [desired EXCEPT ![p] =
                               [membytes |-> m.bytes, cpus |-> c, typed |-> m.typed]]
              /\ pc' = [pc EXCEPT ![p] = "mkfifo"]
              /\ UNCHANGED <<made, pipefd, fifoQ, cpuVars, memVars, histVars>>
  /\ UNCHANGED <<sysOnline, fifoPath, parseVars, waitVars>>

\* the FIFO a mkfifo creates: one that neither the path nor a descriptor
\* refers to
FreeFifo ==
  CHOOSE f \in FifoIds :
    /\ f # fifoPath /\ \A r \in Procs : pipefd[r] # f
    /\ \A g \in FifoIds : g < f => (g = fifoPath \/ \E r \in Procs : pipefd[r] = g)

\* mkfifo("/tmp/wastebin", ...) (lines 411-417)
Mkfifo(p, ext) ==
  /\ pc[p] = "mkfifo"
  /\ IF fifoPath # 0
     THEN \* EEXIST
          /\ pc' = [pc EXCEPT ![p] = "client_open"]
          /\ UNCHANGED <<fifoPath, made, pipefd, fifoQ, desired, cpuVars,
                         memVars, histVars>>
     ELSE IF ext = "fail"
     THEN /\ fail_exit(p, "Getting pipe")
          /\ UNCHANGED fifoPath
     ELSE /\ fifoPath' = FreeFifo
          /\ made' = [made EXCEPT ![p] = FreeFifo]
          /\ pc' = [pc EXCEPT ![p] = "server"]
          /\ UNCHANGED <<pipefd, fifoQ, desired, cpuVars, memVars, histVars>>
  /\ UNCHANGED <<sysOnline, ninv, parseVars, waitVars>>

\* open("/tmp/wastebin", O_WRONLY | O_NONBLOCK) after EEXIST (lines 418-425):
\* it succeeds when the path names a FIFO that some process holds open for
\* reading; otherwise the invocation goes on to become a server
ClientOpen(p) ==
  /\ pc[p] = "client_open"
  /\ IF fifoPath # 0 /\ Readers(fifoPath) # {}
     THEN /\ pipefd' = [pipefd EXCEPT ![p] = fifoPath]
          /\ pc' = [pc EXCEPT ![p] = "client_write"]
     ELSE /\ pc' = [pc EXCEPT ![p] = "server"]
          /\ UNCHANGED pipefd
  /\ UNCHANGED <<machineVars, made, desired, cpuVars, memVars, histVars,
                 parseVars, waitVars>>

\* the terminal DesiredState
IsZero(t) == t.membytes = 0 /\ t.cpus = 0

\* the process in slot d withholds a CPU or memory
Withholds(d) == cpus_taken[d] # {} \/ wastebin_memory_taken[d] > 0

\* the words of desired as write(2) lays them in the pipe (the struct of
\* lines 386-388, written at line 421), each tagged with its writer w
WriteWordsCpusFirst(d, w) ==
  << [by |-> w, field |-> "cpus", value |-> d.cpus, typed |-> d.typed],
     [by |-> w, field |-> "membytes", value |-> d.membytes, typed |-> d.typed] >>
WriteWords(d, w) ==
  << [by |-> w, field |-> "membytes", value |-> d.membytes, typed |-> d.typed],
     [by |-> w, field |-> "cpus", value |-> d.cpus, typed |-> d.typed] >>

\* write(pipefd, &desired, sizeof(desired)); close(pipefd); return 0
\* (lines 421-423).  A write to a FIFO that no process reads raises SIGPIPE;
\* a write of no more than PIPE_BUF bytes goes into the pipe in one piece.
ClientWrite(p) ==
  /\ pc[p] = "client_write"
  /\ LET f == pipefd[p]
         q == IF Readers(f) = {} THEN fifoQ
              ELSE [fifoQ EXCEPT ![f] = @ \o WriteWords(desired[p], p)]
         o == [d \in Procs |->
                 IF d \in Readers(f) /\ IsZero(desired[p]) /\ Withholds(d)
                 THEN "owed" ELSE owed[d]]
     IN  ExitProcQ(p, IF Readers(f) = {} THEN "signal" ELSE "exit0",
                   IF Readers(f) = {} THEN "SIGPIPE" ELSE "none", "none", q, o)
  /\ UNCHANGED <<sysOnline, fifoPath, ninv, parseVars, waitVars>>

\* becoming the server: the log file, fork, dup2, setsid, then
\* open("/tmp/wastebin", O_RDWR | O_NONBLOCK) (lines 431-479); the slot goes
\* on as the child
BecomeServer(p, ext) ==
  /\ pc[p] = "server"
  /\ IF ext = "fail"
     THEN ExitProc(p, "exit1", "could not start background process", "none")
     ELSE IF fifoPath = 0
     THEN ExitProc(p, "exit1", "could not open /tmp/wastebin to read", "none")
     ELSE /\ pipefd' = [pipefd EXCEPT ![p] = fifoPath]
          /\ pc' = [pc EXCEPT ![p] = "inventory"]
          /\ UNCHANGED <<fifoQ, made, desired, cpuVars, memVars, histVars>>
  /\ UNCHANGED <<sysOnline, fifoPath, ninv, parseVars, waitVars>>

(***************************************************************************)
(* The daemon: inventory.                                                  *)
(***************************************************************************)
\* inventory_cpus and inventory_memory (lines 280-307, 481-483).  sysfs is
\* whether the open of the sysfs file succeeds (the parser returns at once
\* when it does not), ext whether sysconf and mmap succeed.
Inventory(p, sysfs, ext, lay) ==
  /\ pc[p] = "inventory"
  /\ IF ext = "fail"
     THEN fail_exit(p, "getting waste memory segment")
     ELSE /\ cpus_online' = [cpus_online EXCEPT ![p] =
               IF sysfs = "ok"
               THEN parse_sysfs_cpu_set(SysfsText(sysOnline), cpus_online[p], lay).marks
               ELSE cpus_online[p]]
          /\ wastebin_max_size' = [wastebin_max_size EXCEPT ![p] = PhysPages * PageSize]
          /\ wastebin_memory_taken' = [wastebin_memory_taken EXCEPT ![p] = 0]
          /\ pc' = [pc EXCEPT ![p] = "adjust_cpus"]
          /\ UNCHANGED <<pipefd, fifoQ, made, desired, cpus_taken,
                         wastebin_cpus_taken, locked, histVars>>
  /\ UNCHANGED <<sysOnline, fifoPath, ninv, parseVars, waitVars>>

(***************************************************************************)
(* The daemon: adjust_cpus.                                                *)
(***************************************************************************)
\* count_cpu_set
count_cpu_set(cpu_states) == Cardinality(cpu_states)

\* what a write of digit state to cpu's online file does to the kernel's
\* set; the kernel refuses to take its last online CPU offline
ToggleRefused(sys, cpu, state) == state = 0 /\ sys \ {cpu} = {}
set_cpu_online_state(sys, cpu, state) ==
  IF state = 1 THEN sys \cup {cpu} ELSE sys \ {cpu}

\* the index the downward scan stops at (the do-while of lines 325-327),
\* -1 when it finds no online CPU down to index 0 and the unsigned index
\* wraps past the array
ScanDownFromBottom(online, last_online) ==
  LET below == {i \in online : i < last_online}
  IN  IF below = {} THEN -1 ELSE SetMin(below)

ScanDown(online, last_online) ==
  LET below == {i \in online : i < last_online}
  IN  IF below = {} THEN -1 ELSE SetMax(below)

\* the index the upward scan stops at (the while of lines 336-338), -1 when
\* it runs past the array
ScanUpFromTop(taken, first_taken) ==
  LET above == {i \in taken : i >= first_taken}
  IN  IF above = {} THEN -1 ELSE SetMax(above)

ScanUp(taken, first_taken) ==
  LET above == {i \in taken : i >= first_taken}
  IN  IF above = {} THEN -1 ELSE SetMin(above)

\* cpus_online after a CPU is taken (line 330)
OnlineAfterTakeKeepsCpu(online, cpu) == online
OnlineAfterTake(online, cpu) == online \ {cpu}

\* the test that stops the taking at the lowest index (line 328)
CantExhaustBelowZero(last_online) == last_online < 0
CantExhaust(last_online) == last_online = 0

\* The first loop of adjust_cpus (lines 324-333).  st is the record
\* [out, online, taken, n_taken, sys, log]; failAt is the number of the
\* write of this call that fails for an outside reason (0: none).
RECURSIVE TakeLoop(_, _, _, _)
TakeLoop(st, ncpus, last_online, failAt) ==
  IF ~(st.n_taken < ncpus) THEN st
  ELSE LET found == ScanDown(st.online, last_online)
       IN  IF found < 0 THEN [st EXCEPT !.out = "ub"]
           ELSE IF CantExhaust(found) THEN [st EXCEPT !.out = "exhaust"]
           ELSE LET marked == [st EXCEPT !.online = OnlineAfterTake(@, found),
                                         !.taken = @ \cup {found}]
                IN  IF Len(st.log) + 1 = failAt \/ ToggleRefused(st.sys, found, 0)
                    THEN [marked EXCEPT !.out = "toggle_fail"]
                    ELSE TakeLoop([marked EXCEPT
                                     !.sys = set_cpu_online_state(@, found, 0),
                                     !.log = Append(@, <<found, 0>>),
                                     !.n_taken = @ + 1],
                                  ncpus, found, failAt)

\* The second loop of adjust_cpus (lines 335-343).
RECURSIVE ReleaseLoop(_, _, _, _)
ReleaseLoop(st, ncpus, first_taken, failAt) ==
  IF ~(st.n_taken > ncpus) THEN st
  ELSE LET found == ScanUp(st.taken, first_taken)
       IN  IF found < 0 THEN [st EXCEPT !.out = "ub"]
           ELSE LET marked == [st EXCEPT !.taken = @ \ {found},
                                         !.online = @ \cup {found}]
                IN  IF Len(st.log) + 1 = failAt
                    THEN [marked EXCEPT !.out = "toggle_fail"]
                    ELSE ReleaseLoop([marked EXCEPT
                                        !.sys = set_cpu_online_state(@, found, 1),
                                        !.log = Append(@, <<found, 1>>),
                                        !.n_taken = @ - 1],
                                     ncpus, found + 1, failAt)

\* the body of adjust_cpus after its consistency check
AdjustLoops(online, taken, sys, ncpus, failAt) ==
  LET st0 == [out |-> "ok", online |-> online, taken |-> taken,
              n_taken |-> count_cpu_set(taken), sys |-> sys, log |-> <<>>]
      st1 == TakeLoop(st0, ncpus, max_cpu_count, failAt)
  IN  IF st1.out # "ok" THEN st1 ELSE ReleaseLoop(st1, ncpus, 0, failAt)

\* the writes an outside failure can hit
FailAtChoices == 0 .. 2
\* how a process ends once its scan index has left the array: killed by
\* the fault, or stopped by the failing open of a CPU file that is not there
UbOutcomes == {"signal", "exit1"}

\* the CPUs a log of writes takes (state 0) or releases (state 1), in order
LogCpus(log, state) == SelectSeq(log, LAMBDA w : w[2] = state)

\* wastebin_cpus_taken once both loops are through (line 344)
CounterAfterKept(old, ncpus) == old
CounterAfter(old, ncpus) == ncpus

\* adjust_cpus(desired.cpus, cmdstr) (lines 309-346, called at line 489)
AdjustCpus(p, failAt, ub) ==
  /\ pc[p] = "adjust_cpus"
  /\ IF count_cpu_set(cpus_taken[p]) # wastebin_cpus_taken[p]
     THEN /\ fail_exit(p, "adjusting cpus taken")
          /\ UNCHANGED sysOnline
     ELSE LET r == AdjustLoops(cpus_online[p], cpus_taken[p], sysOnline,
                               desired[p].cpus, failAt)
              took == LogCpus(r.log, 0)
              gave == LogCpus(r.log, 1)
          IN  /\ sysOnline' = r.sys
              /\ CASE r.out = "ok" ->
                        /\ cpus_online' = [cpus_online EXCEPT ![p] = r.online]
                        /\ cpus_taken' = [cpus_taken EXCEPT ![p] = r.taken]
                        /\ toggles' = [toggles EXCEPT ![p] = r.log]
                        /\ firstTaken' = [firstTaken EXCEPT ![p] =
                             IF @ = -1 /\ took # <<>> THEN took[1][1] ELSE @]
                        /\ lastReleased' = [lastReleased EXCEPT ![p] =
                             IF gave # <<>> THEN gave[Len(gave)][1] ELSE @]
                        /\ wastebin_cpus_taken' =
                             [wastebin_cpus_taken EXCEPT ![p] =
                                CounterAfter(@, desired[p].cpus)]
                        /\ pc' = [pc EXCEPT ![p] = "adjust_memory"]
                        /\ UNCHANGED <<pipefd, fifoQ, made, desired, memVars,
                                       lastop, applied, owed, lastExit>>
                   [] r.out = "exhaust" -> fail_exit(p, "can't exhaust online cpus")
                   [] r.out = "toggle_fail" ->
                        ExitProc(p, "exit1", "writing online state", "none")
                   [] r.out = "ub" ->
                        ExitProc(p, ub, "scan index outside the cpu arrays", "none")
  /\ UNCHANGED <<fifoPath, ninv, parseVars, waitVars>>

(***************************************************************************)
(* The daemon: adjust_memory.                                              *)
(***************************************************************************)
\* pages of the byte range [lo, hi) of the reservation
PagesIn(lo, hi) ==
  {k \in 0 .. (PhysPages - 1) : lo <= k * PageSize /\ k * PageSize < hi}

\* the tests of adjust_memory (lines 350 and 368)
MustGrowOrEqual(taken, membytes) == taken <= membytes
MustGrow(taken, membytes) == taken < membytes
MustShrink(taken, membytes) == taken > membytes

\* the range of the mlock call (lines 354-355)
GrowRange(taken, membytes) == [lo |-> taken, hi |-> membytes]

\* the range of the munlock and madvise calls (lines 369-372)
ShrinkRangeFromStart(taken, membytes) == [lo |-> 0, hi |-> taken - membytes]
ShrinkRange(taken, membytes) == [lo |-> membytes, hi |-> taken]

\* errno of an mlock that fails
LockErrnos == {"EPERM", "ENOMEM"}
LockResults == {"ok"} \cup LockErrnos

\* mlock(2) on [lo, hi): 0, or -1 with errno set.  A range that is not all
\* inside the mapping of max_size bytes fails with ENOMEM; otherwise res is
\* what the kernel answers.
mlock(lo, hi, max_size, res) ==
  IF hi > max_size THEN [ec |-> -1, errno |-> "ENOMEM"]
  ELSE IF res = "ok" THEN [ec |-> 0, errno |-> "none"]
  ELSE [ec |-> -1, errno |-> res]

\* the switch on mlock's return value (lines 359-366)
LockOutcome(ec) ==
  CASE ec = 0 -> "locked"
    [] ec = EPERM -> "Lock memory requires CAP_IPC_LOCK"
    [] OTHER -> "Can't lock the pages in memory"

\* the test that ends the server loop (line 493)
LoopEndsOnEither(ncpus_taken, memory_taken) == ncpus_taken = 0 \/ memory_taken = 0
LoopEnds(ncpus_taken, memory_taken) == ncpus_taken = 0 /\ memory_taken = 0

\* adjust_memory(desired.membytes, cmdstr) and the test that follows it
\* (lines 348-376, 490-494)
AdjustMemory(p, res) ==
  /\ pc[p] = "adjust_memory"
  /\ LET taken == wastebin_memory_taken[p]
         membytes == desired[p].membytes
         AfterApply(op, newlocked, newtaken) ==
           /\ lastop' = [lastop EXCEPT ![p] = op]
           /\ locked' = [locked EXCEPT ![p] = newlocked]
           /\ wastebin_memory_taken' = [wastebin_memory_taken EXCEPT ![p] = newtaken]
           /\ applied' = [applied EXCEPT ![p] = desired[p]]
           /\ pc' = [pc EXCEPT ![p] =
                IF LoopEnds(wastebin_cpus_taken[p], newtaken) THEN "close" ELSE "read"]
           /\ UNCHANGED <<pipefd, fifoQ, made, desired, cpuVars,
                          wastebin_max_size, toggles, firstTaken, lastReleased,
                          owed, lastExit>>
     IN  IF MustGrow(taken, membytes)
         THEN LET g == GrowRange(taken, membytes)
                  k == mlock(g.lo, g.hi, wastebin_max_size[p], res)
              IN  IF LockOutcome(k.ec) = "locked"
                  THEN AfterApply([op |-> "mlock", lo |-> g.lo, hi |-> g.hi,
                                   from |-> taken],
                                  locked[p] \cup PagesIn(g.lo, g.hi), membytes)
                  ELSE ExitProc(p, "exit1", LockOutcome(k.ec), k.errno)
         ELSE IF MustShrink(taken, membytes)
         THEN LET g == ShrinkRange(taken, membytes)
              IN  AfterApply([op |-> "munlock", lo |-> g.lo, hi |-> g.hi,
                              from |-> taken],
                             locked[p] \ PagesIn(g.lo, g.hi), membytes)
         ELSE AfterApply(NoOp, locked[p], taken)
  /\ UNCHANGED <<sysOnline, fifoPath, ninv, parseVars, waitVars>>

(***************************************************************************)
(* The daemon: waiting for the next message, and the end.                  *)
(***************************************************************************)
\* what read(pipefd, &desired, sizeof(desired)) can return on a pipe that
\* holds the words q (line 497): the words there are, up to MsgWords of
\* them; with an empty pipe EAGAIN, or, when something outside the program
\* interferes, a fragment that a foreign writer left or an error
ReadOutcomes(q, exts) ==
  IF q # <<>>
  THEN {[nb |-> IF Len(q) < MsgWords THEN Len(q) ELSE MsgWords, errno |-> "none"]}
  ELSE {[nb |-> -1, errno |-> "EAGAIN"]}
       \cup (IF "fail" \in exts
             THEN {[nb |-> 1, errno |-> "none"], [nb |-> -1, errno |-> "EINTR"]}
             ELSE {})

\* the test of the while at lines 497-498
ReadComplete(r) == r.nb = MsgWords

\* the test at line 499
ReadFatalOnErrorOnly(r) == r.nb < 0 /\ r.errno # "EAGAIN"
ReadFatal(r) == r.nb > 0 \/ (r.nb < 0 /\ r.errno # "EAGAIN")

\* desired after a read stored words there: the first word lands in
\* membytes, the second in cpus
DesiredFrom(words) ==
  [membytes |-> words[1].value, cpus |-> words[2].value, typed |-> words[1].typed]

\* one pass of the while at lines 497-503: the read, then a new APPLY, the
\* fatal exit, or the way into poll
Read(p, r) ==
  /\ pc[p] = "read"
  /\ LET q == fifoQ[pipefd[p]]
         got == IF r.nb > 0 /\ q # <<>> THEN r.nb ELSE 0
     IN  IF ReadComplete(r)
         THEN /\ desired' = [desired EXCEPT ![p] = DesiredFrom(SubSeq(q, 1, got))]
              /\ fifoQ' = [fifoQ EXCEPT ![pipefd[p]] = SubSeq(q, got + 1, Len(q))]
              /\ pc' = [pc EXCEPT ![p] = "adjust_cpus"]
              /\ UNCHANGED <<made, pipefd, cpuVars, memVars, histVars, nb>>
         ELSE IF ReadFatal(r)
         THEN /\ ExitProcQ(p, "exit1", "reading client command", r.errno,
                           [fifoQ EXCEPT ![pipefd[p]] = SubSeq(q, got + 1, Len(q))],
                           owed)
              /\ UNCHANGED nb
         ELSE /\ nb' = [nb EXCEPT ![p] = r]
              /\ pc' = [pc EXCEPT ![p] = "poll"]
              /\ UNCHANGED <<fifoQ, made, desired, pipefd, cpuVars, memVars,
                             histVars>>
  /\ UNCHANGED <<sysOnline, fifoPath, ninv, parseVars>>

\* the test that ends the do-while around poll (line 508): POLLIN is set
\* when the pipe holds something to read
PollReadyAlways(q) == TRUE
PollReady(q) == q # <<>>

\* the do-while around poll(&pipe_poll, 1, 50000) (lines 504-509): the
\* process sleeps, one bounded wait after the other, until the FIFO is
\* readable or poll fails
Poll(p, ext) ==
  /\ pc[p] = "poll"
  /\ IF ext = "fail"
     THEN fail_exit(p, "polling named pipe")
     ELSE /\ PollReady(fifoQ[pipefd[p]])
          /\ pc' = [pc EXCEPT ![p] = "read"]
          /\ UNCHANGED <<fifoQ, made, desired, pipefd, cpuVars, memVars, histVars>>
  /\ nb' = [nb EXCEPT ![p] = NoRead]
  /\ UNCHANGED <<sysOnline, fifoPath, ninv, parseVars>>

\* close(pipefd) (line 513)
CloseFifo(p) ==
  /\ pc[p] = "close"
  /\ pipefd' = [pipefd EXCEPT ![p] = 0]
  /\ fifoQ' = Drain(fifoQ, pipefd')
  /\ pc' = [pc EXCEPT ![p] = "unlink"]
  /\ UNCHANGED <<sysOnline, fifoPath, ninv, made, desired, cpuVars, memVars,
                 histVars, parseVars, waitVars>>

\* unlink("/tmp/wastebin") and the return from main (lines 514-522)
Unlink(p) ==
  /\ pc[p] = "unlink"
  /\ IF fifoPath = 0
     THEN ExitProc(p, "exit1", "can't remove named pipe /tmp/wastebin", "none")
     ELSE ExitProc(p, "exit0", Terminated, "none")
  /\ fifoPath' = 0
  /\ UNCHANGED <<sysOnline, ninv, parseVars, waitVars>>

(***************************************************************************)
(* The specification of the command and its daemon.                        *)
(***************************************************************************)
\* a step of the process in slot p, the outcomes of the system calls it
\* makes drawn from exts, fails and locks
Step(p, exts, fails, locks) ==
  \/ \E ext \in exts : Mkfifo(p, ext)
  \/ ClientOpen(p)
  \/ ClientWrite(p)
  \/ \E ext \in exts : BecomeServer(p, ext)
  \/ \E sysfs \in exts, ext \in exts, lay \in Layouts : Inventory(p, sysfs, ext, lay)
  \/ \E failAt \in fails, ub \in UbOutcomes : AdjustCpus(p, failAt, ub)
  \/ \E res \in locks : AdjustMemory(p, res)
  \/ /\ pc[p] = "read"
     /\ \E r \in ReadOutcomes(fifoQ[pipefd[p]], exts) : Read(p, r)
  \/ \E ext \in exts : Poll(p, ext)
  \/ CloseFifo(p)
  \/ Unlink(p)

\* somebody runs the command
Run(p) == \E a \in CommandLines : Invoke(p, a[1], a[2])

Next ==
  \E p \in Procs :
    \/ Run(p)
    \/ Step(p, Ext, FailAtChoices, LockResults)

Spec == Init /\ [][Next]_vars

\* The same with every system call outside the program's control
\* succeeding, and every started process scheduled again and again.
QuietStep(p) == Step(p, {"ok"}, {0}, {"ok"})

QuietNext == \E p \in Procs : Run(p) \/ QuietStep(p)

FairSpec ==
  Init /\ [][QuietNext]_vars /\ \A p \in Procs : WF_vars(QuietStep(p))

(***************************************************************************)
(* The parser on its own: parse_sysfs_cpu_set over every text of the bound *)
(* length that a sysfs file could hold, written with two ids inside the    *)
(* CPU index domain, one digit that is not, the two punctuation marks, a   *)
(* letter, a blank and the newline.                                        *)
(***************************************************************************)
TextChars == {"0", "1", Digits[max_cpu_count + 1], "-", ",", "x", " ", "\n"}

Texts == UNION {[1 .. n -> TextChars] : n \in 0 .. MaxTextLen}

ParseInit ==
  /\ Boot
  /\ sysOnline = CpuIndex
  /\ ptext \in Texts
  /\ presult = NoResult

\* one call of parse_sysfs_cpu_set on a zeroed cpu_states array
ParseText(lay) ==
  /\ presult = NoResult
  /\ presult' = parse_sysfs_cpu_set(ptext, {}, lay)
  /\ UNCHANGED <<machineVars, procVars, cpuVars, memVars, histVars, ptext,
                 waitVars>>

ParseNext == \E lay \in Layouts : ParseText(lay)

ParseSpec == ParseInit /\ [][ParseNext]_vars

(***************************************************************************)
(* Properties.                                                             *)
(***************************************************************************)
\* the process in slot p has completed an APPLY and not begun the next
Applied(p) == pc[p] \in {"read", "poll", "close"}

\* least multiple of the page size that is not below n
RoundUp(n) ==
  CHOOSE m \in {k * PageSize : k \in 0 .. ((n \div PageSize) + 1)} :
    m >= n /\ m - n < PageSize

\* C1: once a daemon has completed APPLY for a target (membytes, cpus), in
\* whatever state it was before, the number of CPUs in Taken is cpus and
\* memory_taken is membytes rounded up to the page size.
C1_ApplyReachesTarget ==
  \A p \in Procs :
    Applied(p) =>
      /\ applied[p] = desired[p]
      /\ Cardinality(cpus_taken[p]) = applied[p].cpus
      /\ wastebin_cpus_taken[p] = applied[p].cpus
      /\ wastebin_memory_taken[p] = RoundUp(applied[p].typed)

\* a daemon that held other CPUs and memory before completed APPLY for a
\* target of one CPU and one byte
C1_Witness ==
  \E p \in Procs :
    /\ Applied(p)
    /\ applied[p].cpus = 1 /\ applied[p].typed = 1
    /\ lastReleased[p] # -1
    /\ lastop[p].op = "munlock"
    /\ wastebin_memory_taken[p] = PageSize

\* the process in slot p has completed a CPU adjustment
CpusAdjusted(p) == pc[p] \in {"adjust_memory", "read", "poll", "close", "unlink"}

\* C4: after every completed CPU adjustment of a daemon, Online and Taken
\* are disjoint.
C4_OnlineTakenDisjoint ==
  \A p \in Procs : CpusAdjusted(p) => cpus_online[p] \cap cpus_taken[p] = {}

\* a CPU adjustment that released a CPU and left another taken is complete
C4_Witness ==
  \E p \in Procs :
    /\ pc[p] = "adjust_memory"
    /\ cpus_taken[p] # {} /\ cpus_online[p] # {}
    /\ toggles[p] # <<>> /\ toggles[p][1][2] = 1

\* C5: a CPU adjustment takes CPUs from the top of Online downwards and
\* releases Taken CPUs lowest index first, so that the first CPU a daemon
\* ever took stays taken until every other one is released and is the last
\* one released.
C5_TakeTopReleaseBottom ==
  \A p \in Procs :
    CpusAdjusted(p) =>
      LET log == toggles[p]
      IN  /\ \A i \in 1 .. Len(log), j \in 1 .. Len(log) :
               i < j => /\ log[i][2] = log[j][2]
                        /\ log[i][2] = 0 => log[i][1] > log[j][1]
                        /\ log[i][2] = 1 => log[i][1] < log[j][1]
          /\ \A i \in 1 .. Len(log) :
               /\ log[i][2] = 0 => \A o \in cpus_online[p] : o < log[i][1]
               /\ log[i][2] = 1 => \A t \in cpus_taken[p] : t > log[i][1]
          /\ cpus_taken[p] # {} => firstTaken[p] \in cpus_taken[p]
          /\ (cpus_taken[p] = {} /\ firstTaken[p] # -1) =>
               lastReleased[p] = firstTaken[p]

\* two CPUs were taken and are now released, the lower one first and the
\* first one taken last
C5_Witness ==
  \E p \in Procs :
    /\ pc[p] = "adjust_memory"
    /\ Len(toggles[p]) = 2
    /\ toggles[p][1][2] = 1 /\ toggles[p][2][2] = 1
    /\ toggles[p][1][1] < toggles[p][2][1]
    /\ toggles[p][2][1] = firstTaken[p]
    /\ cpus_taken[p] = {}

\* two targets are the same DesiredState
SameTarget(a, b) == a.membytes = b.membytes /\ a.cpus = b.cpus

\* C6: when the target a daemon applies is the one it applied last, the CPU
\* adjustment writes to no CPU file and leaves Online, Taken and the
\* counter as they were, and the memory adjustment makes no lock or unlock
\* call and leaves the locked pages and memory_taken as they were.
C6_Idempotent ==
  [][\A p \in Procs :
       /\ (/\ pc[p] = "adjust_cpus" /\ pc'[p] = "adjust_memory"
           /\ SameTarget(desired[p], applied[p]))
          => /\ toggles'[p] = <<>>
             /\ sysOnline' = sysOnline
             /\ cpus_online'[p] = cpus_online[p]
             /\ cpus_taken'[p] = cpus_taken[p]
             /\ wastebin_cpus_taken'[p] = wastebin_cpus_taken[p]
       /\ (/\ pc[p] = "adjust_memory" /\ pc'[p] = "read"
           /\ SameTarget(desired[p], applied[p]))
          => /\ lastop'[p].op = "none"
             /\ locked'[p] = locked[p]
             /\ wastebin_memory_taken'[p] = wastebin_memory_taken[p]]_vars

\* a daemon has applied for the second time in a row a target that
\* withholds CPUs and memory
C6_Witness ==
  \E p \in Procs :
    /\ pc[p] = "read"
    /\ lastop[p].op = "none" /\ toggles[p] = <<>>
    /\ cpus_taken[p] # {} /\ wastebin_memory_taken[p] > 0

\* C8: in every state of a daemon memory_taken is between 0 and max_size
\* and the locked pages are the pages of [0, memory_taken); the last lock
\* call covered [memory_taken before, target) and the last unlock call
\* [target, memory_taken before).
C8_LockedPrefix ==
  \A p \in Procs :
    /\ 0 <= wastebin_memory_taken[p]
    /\ wastebin_memory_taken[p] <= wastebin_max_size[p]
    /\ locked[p] = PagesIn(0, wastebin_memory_taken[p])
    /\ lastop[p].op = "mlock" =>
         /\ lastop[p].lo = lastop[p].from
         /\ lastop[p].hi = wastebin_memory_taken[p]
         /\ lastop[p].lo < lastop[p].hi
    /\ lastop[p].op = "munlock" =>
         /\ lastop[p].lo = wastebin_memory_taken[p]
         /\ lastop[p].hi = lastop[p].from
         /\ lastop[p].lo < lastop[p].hi

\* a daemon that had two pages locked has unlocked the second one
C8_Witness ==
  \E p \in Procs :
    /\ lastop[p].op = "munlock"
    /\ lastop[p].from = 2 * PageSize
    /\ wastebin_memory_taken[p] = PageSize
    /\ locked[p] = {0}

\* the process in slot p is acting as the daemon: it has passed the
\* rendezvous and is in INVENTORY, APPLY or WAIT
IsDaemon(p) ==
  pc[p] \in {"inventory", "adjust_cpus", "adjust_memory", "read", "poll"}

\* C2: at most one process at a time is acting as the daemon.
C2_OneDaemon == Cardinality({p \in Procs : IsDaemon(p)}) <= 1

\* C3: a daemon that was sent the message (0, 0) while it withheld a CPU or
\* memory goes on to release everything, remove the path and end: it does
\* not end in any other way.
C3_ZeroDrains ==
  [][\A p \in Procs : owed[p] = "owed" => owed'[p] \in {"owed", "done"}]_vars

\* C7: whenever the path /tmp/wastebin exists, the process that created the
\* FIFO it names, or a daemon holding that FIFO open, is alive.
C7_EndpointHasOwner ==
  fifoPath # 0 =>
    \E p \in Procs :
      /\ pc[p] # "idle"
      /\ made[p] = fifoPath \/ (pipefd[p] = fifoPath /\ pc[p] # "client_write")

\* C9: a daemon stopped by a failing mlock prints the CAP_IPC_LOCK
\* diagnostic exactly when the failure is one of permission.
C9_PermissionDiagnostic ==
  lastExit.errno # "none" =>
    (lastExit.diag = "Lock memory requires CAP_IPC_LOCK" <=> lastExit.errno = "EPERM")

\* The terms of C10, read off the text alone: a number is a run of digits,
\* an item a number or two numbers joined by "-", items are separated by
\* single commas and the text ends at a newline or at its end.  The valid
\* prefix is made of the complete items before the first character that
\* fits none of this; ids are the ids of those items, anomaly whether such
\* a character was met, big whether an item names an id outside the domain.
RECURSIVE ValidPrefix(_, _, _, _)
ValidPrefix(buf, i, ids, big) ==
  LET e == SkipDigits(buf, i)
      lo == DigitsValue(buf, i, e, 0)
      isRange == At(buf, e) = "-"
      e2 == SkipDigits(buf, e + 1)
      hi == DigitsValue(buf, e + 1, e2, 0)
      after == IF isRange THEN e2 ELSE e
      got == IF isRange THEN {x \in CpuIndex : lo <= x /\ x <= hi}
             ELSE {x \in CpuIndex : x = lo}
      b == big \/ lo >= max_cpu_count \/ (isRange /\ hi >= max_cpu_count)
  IN  IF e = i
      THEN [ids |-> ids, anomaly |-> At(buf, i) \notin {"NUL", "\n"}, big |-> big]
      ELSE IF isRange /\ e2 = e + 1
           THEN [ids |-> ids, anomaly |-> TRUE, big |-> big]
      ELSE IF At(buf, after) = "," THEN ValidPrefix(buf, after + 1, ids \cup got, b)
      ELSE [ids |-> ids \cup got,
            anomaly |-> At(buf, after) \notin {"NUL", "\n"}, big |-> b]

\* C10: on a text made of a valid prefix followed by an anomaly the parser
\* returns with exactly the ids of the valid prefix marked: it marks
\* nothing from the anomaly on (texts naming ids of the CPU index domain).
C10_StopsAtAnomaly ==
  LET v == ValidPrefix(ptext, 0, {}, FALSE)
  IN  (presult # NoResult /\ v.anomaly /\ ~v.big) => presult.marks = v.ids

\* C11: on a well-formed text every id below max_cpu_count that the text
\* names, alone or inside a range, is marked, whatever ids at or beyond
\* max_cpu_count the text names as well.
C11_MarksEveryIdBelowMax ==
  LET v == ValidPrefix(ptext, 0, {}, FALSE)
  IN  (presult # NoResult /\ ~v.anomaly) => v.ids \subseteq presult.marks

\* the target of p's pending adjust_cpus cannot be met by the CPUs that p
\* holds online above index 0
NeedsCpuZero(p) ==
  desired[p].cpus - Cardinality(cpus_taken[p]) >
    Cardinality({i \in cpus_online[p] : i > 0})

\* C13: CPU 0 is in no daemon's Taken in any state, and an adjust_cpus whose
\* scan has to go down to index 0 ends the daemon with a failure status and
\* leaves CPU 0 online; when the call has taken every CPU of Online above 0
\* and its scan stands at CPU 0, the daemon ends with "can't exhaust online
\* cpus" and not with a write to the file of CPU 0.
C13_NeverTakesCpuZero ==
  [][\A p \in Procs :
       /\ 0 \notin cpus_taken'[p]
       /\ (pc[p] = "adjust_cpus" /\ pc'[p] # "adjust_cpus" /\ NeedsCpuZero(p))
            => /\ pc'[p] = "idle"
               /\ lastExit'.status # "exit0"
               /\ (0 \in sysOnline => 0 \in sysOnline')
               /\ (/\ 0 \in cpus_online[p]
                   /\ \A c \in cpus_online[p] \ {0} :
                        c \in sysOnline /\ c \notin sysOnline')
                    => lastExit'.diag = "can't exhaust online cpus"]_vars

\* a daemon was stopped at CPU 0 after it had taken a CPU above it
C13_Witness ==
  /\ lastExit.diag = "can't exhaust online cpus"
  /\ 0 \in sysOnline
  /\ sysOnline # CpuIndex

\* C18: a daemon that ends, on whatever path, leaves every CPU it had taken
\* back online, and its last step takes no CPU offline.
C18_ExitRestoresCpus ==
  [][\A p \in Procs :
       (IsDaemon(p) /\ pc'[p] = "idle")
         => cpus_taken[p] \subseteq sysOnline' /\ sysOnline \subseteq sysOnline']_vars

\* C19: no scan of adjust_cpus carries its index out of the CPU arrays,
\* whatever the Online set is.
C19_ScanStaysInside == lastExit.diag # "scan index outside the cpu arrays"

\* C20: in every state the counter of taken CPUs equals the number of marks
\* in cpus_taken, so the check at the entry of adjust_cpus never fails.
C20_CounterMatchesTaken ==
  /\ \A p \in Procs : count_cpu_set(cpus_taken[p]) = wastebin_cpus_taken[p]
  /\ lastExit.diag # "adjusting cpus taken"

\* a daemon that withholds CPUs enters adjust_cpus with a new target
C20_Witness ==
  \E p \in Procs :
    /\ pc[p] = "adjust_cpus"
    /\ cpus_taken[p] # {}
    /\ desired[p].cpus # wastebin_cpus_taken[p]

\* the result of a read that found nothing to read yet
NoDataYet == [nb |-> -1, errno |-> "EAGAIN"]

\* C12: a daemon goes from INVENTORY to APPLY, in APPLY from the CPU
\* adjuster to the memory adjuster, from APPLY to TERMINATE exactly when it
\* withholds no CPU and no memory and to WAIT otherwise, from WAIT to APPLY
\* only by taking a whole message out of the FIFO, and the path is removed
\* only by a daemon in TERMINATE; any of these positions can also be left
\* by the end of the process.
C12_ConvergenceLoop ==
  [][/\ \A p \in Procs :
          /\ pc[p] = "inventory" => pc'[p] \in {"inventory", "adjust_cpus", "idle"}
          /\ pc[p] = "adjust_cpus" => pc'[p] \in {"adjust_cpus", "adjust_memory", "idle"}
          /\ pc[p] = "adjust_memory"
               => /\ pc'[p] \in {"adjust_memory", "read", "close", "idle"}
                  /\ pc'[p] = "close"
                       => cpus_taken'[p] = {} /\ wastebin_memory_taken'[p] = 0
                  /\ pc'[p] = "read"
                       => cpus_taken'[p] # {} \/ wastebin_memory_taken'[p] # 0
          /\ pc[p] \in {"read", "poll"}
               => /\ pc'[p] \in {"read", "poll", "adjust_cpus", "idle"}
                  /\ pc'[p] = "adjust_cpus"
                       => /\ Len(fifoQ[pipefd[p]]) >= MsgWords
                          /\ Len(fifoQ'[pipefd[p]]) = Len(fifoQ[pipefd[p]]) - MsgWords
          /\ pc[p] = "close" => pc'[p] \in {"close", "unlink"}
          /\ pc[p] = "unlink" => pc'[p] \in {"unlink", "idle"}
          /\ pc'[p] = "adjust_memory" => pc[p] \in {"adjust_memory", "adjust_cpus"}
          /\ pc'[p] = "close" => pc[p] \in {"close", "adjust_memory"}
     /\ (fifoPath # 0 /\ fifoPath' = 0)
          => \E p \in Procs : pc[p] = "unlink" /\ pc'[p] = "idle"]_vars

\* a daemon that went through WAIT and released its CPUs is in TERMINATE
C12_Witness ==
  \E p \in Procs : pc[p] = "unlink" /\ lastReleased[p] # -1

\* C14: a daemon waits in poll only after a read that found no data yet; a
\* read that returns part of a message or fails otherwise ends it with
\* "reading client command", and with nothing in the FIFO no read starts an
\* APPLY.
C14_ChannelAnomalyFatal ==
  [][\A p \in Procs :
       /\ pc'[p] = "poll" => nb'[p] = NoDataYet
       /\ (pc[p] = "read" /\ pc'[p] = "idle")
            => /\ lastExit'.status = "exit1"
               /\ lastExit'.diag = "reading client command"
               /\ lastExit'.errno # "EAGAIN"
       /\ (pc[p] = "read" /\ fifoQ[pipefd[p]] = <<>>)
            => pc'[p] \in {"read", "poll", "idle"}]_vars

\* a daemon was ended by a read that returned part of a message
C14_Witness ==
  /\ lastExit.diag = "reading client command"
  /\ lastExit.errno = "none"

\* C15 as stated: no read that returns fewer bytes than a message ends the
\* daemon; it is treated as no message yet.
C15_IncompleteReadWaits ==
  lastExit.diag = "reading client command" => lastExit.errno # "none"

\* C15 amended: a read that finds no data yet leaves the daemon running
\* with its target and what it withholds untouched; the daemon then leaves
\* poll only to retry the read once the FIFO is readable (or because poll
\* failed); and a new target is only ever built from the MsgWords oldest
\* words of the FIFO.
C15_NoDataYetWaits ==
  [][\A p \in Procs :
       /\ (pc[p] = "read" /\ pc'[p] = "poll")
            => /\ nb'[p].nb <= 0
               /\ desired'[p] = desired[p]
               /\ cpus_taken'[p] = cpus_taken[p]
               /\ wastebin_memory_taken'[p] = wastebin_memory_taken[p]
               /\ fifoQ' = fifoQ
       /\ (pc[p] = "poll" /\ pc'[p] # "poll")
            => \/ pc'[p] = "read" /\ fifoQ[pipefd[p]] # <<>>
               \/ pc'[p] = "idle" /\ lastExit'.diag = "polling named pipe"
       /\ (pc[p] = "read" /\ desired'[p] # desired[p] /\ pc'[p] # "idle")
            => /\ Len(fifoQ[pipefd[p]]) >= MsgWords
               /\ desired'[p] = DesiredFrom(SubSeq(fifoQ[pipefd[p]], 1, MsgWords))]_vars

\* a daemon waits in poll and a message has arrived
C15_Witness ==
  \E p \in Procs : pc[p] = "poll" /\ fifoQ[pipefd[p]] # <<>>

C17_NoMessageLost ==
  [][\A f \in FifoIds :
       Len(fifoQ'[f]) < Len(fifoQ[f])
         => \E p \in Procs :
              /\ pipefd[p] = f /\ pc[p] = "read" /\ pc'[p] = "adjust_cpus"
              /\ desired'[p] = DesiredFrom(SubSeq(fifoQ[f], 1, MsgWords))]_vars

====
